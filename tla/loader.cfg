SPECIFICATION Spec
CONSTANTS
  Files <- GoodFiles
  NoFile = NoFile
  MemSize = 10
  PageSize = 2
  FirmwarePages = {0, 3}
INVARIANTS
  TypeOK
  KernelInMemory
  OwnPagesOnly
  PoolBalanced
