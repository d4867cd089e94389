------------------------------- MODULE Drivers -------------------------------
(* The Ethernet driver and the DAC driver, each with variables of its own.    *)
EXTENDS EthDriver

CONSTANTS VOL_MAX, VOL_STEP, Volumes, RegBytes
VARIABLES stage, todo, buf, volume, dacMuted, present, regs, pointer, lost

Dac == INSTANCE DacLink

-----------------------------------------------------------------------------
(* The properties of DacLink. *)

\* dacInit accepts the converter and nothing else.
FindsDac == Dac!FindsDac

\* A failed transfer costs its own register only.
RegistersTrack == Dac!RegistersTrack

\* dacInit ends the converter's power-down with every register set.
PowersUpConfigured == Dac!PowersUpConfigured

\* setVol unmutes the converter at the new volume.
UnmutesAtNewVolume == Dac!UnmutesAtNewVolume
=============================================================================
