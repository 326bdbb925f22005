SPECIFICATION Spec
CONSTANTS
  HashSpace = 256
  MaxTarget = 200
  AmountBits = 3
  SubsidySchedule <- MCSubsidySchedule
  SubsidyPeriod = 2
  InitialTarget = 35
  TargetBlockTime = 4
  AdjustmentInterval = 2
  MaxHeight = 8
  Times = {0, 7, 40}
INVARIANTS TypeOK AdjustsAsDocumented SubsidyHalves SupplyCapped
CHECK_DEADLOCK FALSE
