SPECIFICATION FairSpec
CONSTANTS
  Sources = {0, 1, 2, 255}
  Gains = {0, 1, 2, 3}
INVARIANT OnlyOurFpga
PROPERTIES IsRegisterPair CallsReturn
CHECK_DEADLOCK FALSE
