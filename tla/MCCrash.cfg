SPECIFICATION Spec
CONSTANTS
  Blocks <- BrokenBlocks
  Genesis = "G"
  Prev <- BrokenPrev
  Height <- BrokenHeight
  Anc <- BrokenAnc
  Txs <- BrokenTxs
  Vtx <- BrokenVtx
  In <- BrokenIn
  Out <- BrokenOut
  ScriptsOk <- AllTxs
  Lock <- BrokenLock
  CbHeight <- BrokenCbHeight
  RulesV2 <- AllBlocks
  CheckOk <- AllBlocks
  StrictOk <- BrokenStrict
  ContextOk <- AllBlocks
  COINBASE_MATURITY = 1
  SUBSIDY = 4
  HALVING = 8
  MAX_ORPHAN_BLOCKS = 0
  CheckBlocks = 2
  NetHeight = 6
  SyncEvery = 500
  CrashKinds = {"kill", "power"}
  MaxCrashes = 1
  None = None
  Absent = Absent
INVARIANTS TxIndexMatchesChain MainChainLinks DisconnectSucceeds Restartable
PROPERTIES HandlerReturns ImplementsLedger
CHECK_DEADLOCK FALSE
