SPECIFICATION Spec
CONSTANTS
  CONFIG_LINES = 4
  UINT32_RANGE = 64
  UINT8_RANGE = 256
  VOL_MAX = 4
  VOL_SLACK = 1
  VOL_STEP = 2
  INT16_HALF = 8
  SOURCES = 2
  MAX_GAIN = 1
  MUTE_DELAY = 1
  INIT_MUTE_DELAY = 0
  Commands <- SettingsCommands
  Inputs = {}
  CardFaulty = FALSE
  FlashFaulty = TRUE
  MaxRx = 1
  MaxCuts = 0
INVARIANTS
  
  
  NothingUnsaved
