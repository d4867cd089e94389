SPECIFICATION Spec
CONSTANTS
  CONFIG_LINES = 1
  UINT32_RANGE = 64
  UINT8_RANGE = 256
  VOL_MAX = 4
  VOL_SLACK = 1
  VOL_STEP = 2
  INT16_HALF = 8
  SOURCES = 2
  MAX_GAIN = 1
  MUTE_DELAY = 2
  INIT_MUTE_DELAY = 1
  Commands <- MuteCommands
  Inputs = {}
  CardFaulty = FALSE
  FlashFaulty = FALSE
  MaxRx = 1
  MaxCuts = 0
INVARIANTS
  RawApiFromOneContext
