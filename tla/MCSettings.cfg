SPECIFICATION Spec
CONSTANTS
  CONFIG_LINES = 3
  VALUE_SIZE = 2
  INT16_SIZE = 1
  UINT32_SIZE = 2
  DOUBLE_SIZE = 2
  Byte = {0, 1, 255}
  BLANK = 255
  ShortNames = {"gain"}
  FullNames = {"use_dhcp"}
  LongNames = {"ip_address"}
  Int16s <- MCInt16s
  Uint32s <- MCUint32s
  Doubles <- MCDoubles
  Strings <- MCStrings
  FlashFaulty = TRUE
  MaxCuts = 1
INVARIANT OneLinePerName
PROPERTIES IsSettingsMap FlushSaves ClearIsTotal
CHECK_DEADLOCK FALSE
