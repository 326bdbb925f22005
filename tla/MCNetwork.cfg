SPECIFICATION FairSpec
CONSTANTS
  Nodes <- MCNodes
  Miner <- MCMiner
  InitialChains <- MCInitialChains
  StrikesBeforeBan = 2
  MaxBackfillDepth = 3
  IbdWindow = 2
  MaxIbdBlocks = 3
  MaxTasks = 2
  MaxConnects = 1
  MaxFaults = 1
  Txs <- MCTxs
  TxBody <- MCTxBody
  Blocks <- MCBlocks
  Header <- MCHeader
  Body <- MCBody
  GenesisBlock = 50
  HashSpace = 64
  MaxTarget = 15
  AmountBits = 8
  SubsidySchedule <- MCSubsidySchedule
  SubsidyPeriod = 8
  InitialTarget = 7
  TargetBlockTime = 2
  AdjustmentInterval = 0
INVARIANTS NetTypeOK
PROPERTIES MovesToBetter NotLeftBehind
CHECK_DEADLOCK FALSE
