SPECIFICATION Spec
CONSTANTS
  Txs <- PhantomTxs
  TxBody <- PhantomTxBody
  Blocks <- PhantomBlocks
  Header <- PhantomHeader
  Body <- PhantomBody
  GenesisBlock = 50
  HashSpace = 64
  MaxTarget = 15
  AmountBits = 8
  SubsidySchedule <- MCSubsidySchedule
  SubsidyPeriod = 2
  InitialTarget = 7
  TargetBlockTime = 2
  AdjustmentInterval = 0
  MaxBackfillDepth = 2
  MaxHandlers = 1
  MaxFaults = 0
  Addresses <- MCAddresses
  OutputOwner <- PhantomOutputOwner
INVARIANT UtxosReplayChain
