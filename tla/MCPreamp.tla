------------------------------ MODULE MCPreamp -------------------------------
(* Values for the constants of module Preamp: see the configurations. *)
EXTENDS PreampProps

Cmd(o, a) == [op |-> o, arg |-> a]

\* SET_MUTE on and off; the button changes the source.
MuteCommands == {Cmd("SET_MUTE", 0), Cmd("SET_MUTE", 1)}

\* A volume that does not fit an int16_t: with INT16_HALF = 4 the number 5
\* arrives as -3, past the end the knob can reach; the knob does the rest.
VolumeCommands == {Cmd("SET_VOL", 5)}

\* Requests that change what is saved, one of them out of range, and SAVE.
SettingsCommands == {Cmd("SET_SOURCE", 1), Cmd("SET_GAIN", 3), Cmd("SAVE", 0)}

\* A volume, the volume 0 that main takes for "never saved", and a gain, which
\* also asks for a save.
RestoreCommands == {Cmd("SET_VOL", 0), Cmd("SET_VOL", 3), Cmd("SET_GAIN", 1)}

OneCommand == {Cmd("GET", 0)}
=============================================================================
