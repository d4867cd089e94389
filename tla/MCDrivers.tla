------------------------------ MODULE MCDrivers ------------------------------
(* The Ethernet driver and the DAC driver, which share no state.  A behaviour *)
(* is one of either, chosen at the start, with the other one not yet called:  *)
(* what each does interleaved with the other is what it does alone.  Of the   *)
(* Ethernet driver it has much traffic on a steady link, or at most one       *)
(* packet at a time on a link that changes.                                   *)
EXTENDS Drivers

VARIABLE part

\* Volumes below the range, inside it, at the limit and past it.
MCVolumes == {-1, 3, 6, 7}

dacVars == <<stage, todo, buf, volume, dacMuted, present, regs, pointer, lost>>
all == <<part, vars, dacVars>>

MCInit ==
  /\ Init /\ Dac!Init /\ part \in {"ring", "link", "dac"}
  /\ part # "link" => link = "down"
  /\ part # "dac" => /\ present /\ volume = 3
                     /\ regs[Dac!REG_CHIP_ID] = Dac!CHIP_ID
                     /\ regs[Dac!REG_VOLUME_A] = 0

EthStep == /\ part # "dac" /\ Next /\ UNCHANGED <<part, dacVars>>
           /\ IF part = "ring" THEN changes' = 0 ELSE Len(unread') <= 1
DacStep == part = "dac" /\ Dac!Next /\ UNCHANGED <<part, vars>>

MCSpec == /\ MCInit /\ [][EthStep \/ DacStep]_all
          /\ WF_all(EthStep /\ hw_poll)
          /\ WF_all(DacStep /\ Dac!Driver)

-----------------------------------------------------------------------------
\* Calls of the driver return, whatever becomes of their transfers.
DacCallsReturn == part = "dac" => Dac!CallsReturn
=============================================================================
