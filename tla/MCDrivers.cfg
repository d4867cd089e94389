\* A ring of seven words and packets of two, so that packets come to lie at
\* every address; a counter that is full at three.  The registers of the DAC
\* come up as zeros, or as they are at the limit.
SPECIFICATION MCSpec
CONSTANTS
  RXBUF_START = 2
  SRAM_END = 9
  Sizes = {2, 3}
  PKTCNT_MAX = 3
  MaxLost = 1
  MaxChanges = 2
  VOL_MAX  = 6
  VOL_STEP = 2
  Volumes  <- MCVolumes
  RegBytes = {0, 248}
INVARIANTS
  UnreadKept KeepsPlace CountsAll LinkFollowed
  FindsDac RegistersTrack
PROPERTIES
  DrainsRing
  PowersUpConfigured UnmutesAtNewVolume DacCallsReturn
CHECK_DEADLOCK FALSE
