SPECIFICATION Spec
CONSTANTS
  Blocks <- ForkBlocks
  Genesis = "G"
  Prev <- ForkPrev
  Height <- ForkHeight
  Anc <- ForkAnc
  Txs <- ForkTxs
  Vtx <- ForkVtx
  In <- ForkIn
  Out <- ForkOut
  ScriptsOk <- AllTxs
  Lock <- ForkLock
  CbHeight <- ForkCbHeight
  RulesV2 <- AllBlocks
  CheckOk <- AllBlocks
  StrictOk <- AllBlocks
  ContextOk <- AllBlocks
  COINBASE_MATURITY = 2
  SUBSIDY = 4
  HALVING = 4
  MAX_ORPHAN_BLOCKS = 2
  CheckBlocks = 2
  NetHeight = 0
  SyncEvery = 500
  CrashKinds = {}
  MaxCrashes = 0
  None = None
  Absent = Absent
INVARIANTS TypeOK TxIndexMatchesChain NoDoubleSpend InputsOldEnough SupplyBound
  MainChainLinks DisconnectSucceeds OrphansLackParents BestIsLongestValid
PROPERTIES HandlerReturns ImplementsLedger
