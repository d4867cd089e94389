----------------------------- MODULE SettingsMap -----------------------------
(***************************************************************************)
(* What the settings store of mcu/config.c promises its callers: a map     *)
(* from names to values in RAM and a saved copy of it.  A name keeps the   *)
(* value put under it, or nothing; a save that is cut short may leave any  *)
(* part of the map behind, and a name whose line was torn, but never a     *)
(* value that was not put there.                                           *)
(***************************************************************************)
CONSTANTS Names, Values, None, Torn

VARIABLES map, saved

Contents == Values \cup {None, Torn}

Init == map = [n \in Names |-> None] /\ saved = [n \in Names |-> None]

\* A setter stores a value under its name and disturbs no other name.
Put(n, v) == map' = [map EXCEPT ![n] = v] /\ UNCHANGED saved

\* A step of a save: each name has been saved, is being saved, or is not yet.
Save ==
  /\ saved' \in [Names -> Contents]
  /\ \A n \in Names : saved'[n] \in {map[n], None, Torn}
  /\ UNCHANGED map

\* Start-up, and the end of clearConfig: the map is what was saved.
Reload == map' = saved /\ UNCHANGED saved

Next == Save \/ Reload \/ \E n \in Names, v \in Values : Put(n, v)

Spec == Init /\ [][Next]_<<map, saved>>
=============================================================================
