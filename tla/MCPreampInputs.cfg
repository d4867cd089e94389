SPECIFICATION Spec
CONSTANTS
  CONFIG_LINES = 1
  UINT32_RANGE = 64
  UINT8_RANGE = 256
  VOL_MAX = 2
  VOL_SLACK = 1
  VOL_STEP = 2
  INT16_HALF = 4
  SOURCES = 2
  MAX_GAIN = 1
  MUTE_DELAY = 1
  INIT_MUTE_DELAY = 0
  Commands <- VolumeCommands
  Inputs = {"encoder"}
  CardFaulty = FALSE
  FlashFaulty = FALSE
  MaxRx = 1
  MaxCuts = 0
INVARIANTS
  EncoderNotForgotten
  PacketNotForgotten
  DacFollowsVolume
