SPECIFICATION ISpec
CONSTANTS
  Devices = {0, 1, 8, 12}
  Unsteady = {1, 8}
  FirmwareBase <- BiosBase
  MaxNesting = 2
  Faults <- FaultCodes
INVARIANT PicSilent
