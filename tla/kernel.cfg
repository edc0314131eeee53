SPECIFICATION Spec
CONSTANTS
  Entries = 2
  PhysicalPages = 4096
  MaxHexDigits = 16
  MaxDecDigits = 20
  MaxBinDigits = 64
  Machines <- AllMachines
  LastNumber = 999
INVARIANTS
  TypeOK
  OthersKept
  MappedAsBefore
  FreezesIfUnusable
  LapicReachedUsually
  NumbersRead
