SPECIFICATION FairSpec
CONSTANTS
  Machines <- AllMachines
  PS2_TIMEOUT_DURATION = 2
  TicksPerSecond = 2
  Resendable <- Commands
  MaxResends = 1
  TypedOn = {1}
  Keys = {"a", "leftShift", "rightShift"}
  MaxQueue = 1
INVARIANTS
  TypeOK
  Port1Identified
  ConfigKept
  EnabledIsKeyboard
  NothingStuck
  ShiftNeverStuck
PROPERTY
  InitEnds
