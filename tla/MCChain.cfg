SPECIFICATION FairSpec
CONSTANTS
  Txs <- MCTxs
  TxBody <- MCTxBody
  Blocks <- MCBlocks
  Header <- MCHeader
  Body <- MCBody
  GenesisBlock = 50
  HashSpace = 64
  MaxTarget = 15
  AmountBits = 8
  SubsidySchedule <- MCSubsidySchedule
  SubsidyPeriod = 2
  InitialTarget = 7
  TargetBlockTime = 2
  AdjustmentInterval = 2
  MaxBackfillDepth = 3
  MaxHandlers = 1
  MaxFaults = 2
  Addresses <- MCAddresses
  OutputOwner <- MCOutputOwner
INVARIANTS TypeOK IndexesAgree TxIndexAgrees UtxosReplayChain RestoreNeverPanics SupplyWithinSchedule AnswersAgree
PROPERTIES ImplementsLedger ReorgEnds
