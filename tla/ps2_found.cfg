SPECIFICATION Spec
CONSTANTS
  Machines <- AllMachines
  PS2_TIMEOUT_DURATION = 2
  TicksPerSecond = 2
  Resendable = {}
  MaxResends = 0
  TypedOn = {}
  Keys = {}
  MaxQueue = 0
INVARIANT
  KeyboardFound
