SPECIFICATION NodeSpec
CONSTANTS
  Txs <- MCTxs
  TxBody <- MCTxBody
  Blocks <- MCBlocks
  Header <- MCHeader
  Body <- MCBody
  GenesisBlock = 50
  HashSpace = 64
  MaxTarget = 15
  AmountBits = 8
  SubsidySchedule <- MCSubsidySchedule
  SubsidyPeriod = 8
  InitialTarget = 7
  TargetBlockTime = 2
  AdjustmentInterval = 0
  MaxBackfillDepth = 2
  MaxHandlers = 1
  MaxFaults = 0
  MaxMempoolSize = 2
  MaxTxsPerBlock = 1
PROPERTY TxsNotLost
