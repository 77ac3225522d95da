SPECIFICATION NodeSpec
CONSTANTS
  Blocks <- PoolBlocks
  Genesis = "G"
  Prev <- PoolPrev
  Height <- PoolHeight
  Anc <- PoolAnc
  Txs <- PoolTxs
  Vtx <- PoolVtx
  In <- PoolIn
  Out <- PoolOut
  ScriptsOk <- AllTxs
  Lock <- PoolLock
  CbHeight <- PoolCbHeight
  RulesV2 <- AllBlocks
  CheckOk <- AllBlocks
  StrictOk <- AllBlocks
  ContextOk <- AllBlocks
  COINBASE_MATURITY = 1
  SUBSIDY = 12
  HALVING = 8
  MAX_ORPHAN_BLOCKS = 0
  CheckBlocks = 2
  NetHeight = 0
  SyncEvery = 500
  CrashKinds = {"kill"}
  MaxCrashes = 1
  None = None
  Absent = Absent
  Standard <- AllTxs
  Replaceable <- PoolReplaceable
  Size <- PoolSize
  RelayFee <- PoolRelayFee
  MinFee <- PoolMinFee
  FREE_SIZE = 3
  FREE_TRANSACTIONS = 3
  MAX_MEMPOOL_TRANSACTIONS = 3
  MAX_REPLACED_TXS = 2
  MAX_ORPHAN_TRANSACTIONS = 1
  MAX_BLOCK_SIZE = 6
INVARIANT NoPoolConflict
