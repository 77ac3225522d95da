SPECIFICATION Spec
CONSTANTS
  Blocks <- BrokenBlocks
  Genesis = "G"
  Prev <- BrokenPrev
  Height <- BrokenHeight
  Anc <- BrokenAnc
  Txs <- BrokenTxs
  Vtx <- BrokenVtx
  In <- BrokenIn
  Out <- BrokenOut
  ScriptsOk <- AllTxs
  Lock <- BrokenLock
  CbHeight <- BrokenCbHeight
  RulesV2 <- AllBlocks
  CheckOk <- AllBlocks
  StrictOk <- AllBlocks
  ContextOk <- AllBlocks
  COINBASE_MATURITY = 1
  SUBSIDY = 4
  HALVING = 8
  MAX_ORPHAN_BLOCKS = 2
  CheckBlocks = 2
  NetHeight = 0
  SyncEvery = 500
  CrashKinds = {}
  MaxCrashes = 0
  None = None
  Absent = Absent
INVARIANT NoFreedParent
