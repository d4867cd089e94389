----------------------------- MODULE MCSettings ------------------------------
(***************************************************************************)
(* Two lines and two names, one of them as long as the id field, and a     *)
(* value field of two bytes: of the four types one is shorter.             *)
(***************************************************************************)
EXTENDS Settings

MCInt16s  == {<<1>>}
MCUint32s == {<<0, 1>>}
MCDoubles == {<<1, 0>>}
MCStrings == {<<1>>, <<1, 1>>}
=============================================================================
