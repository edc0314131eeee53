SPECIFICATION FairSpec
CONSTANTS
  HpetTables = {"absent", "null_address", "not_memory", "revision_0"}
  HpetPeriod = 2
  HpetMod = 16
  HpetLimit = 3
  U64 = 32
  TenMsFs = 5
  CountMax = 6
  PitTicks = 2
  Slow <- PromptlyEnabled
  MaxTicks = 3
  MaxTime = 20
PROPERTY InitReturns
