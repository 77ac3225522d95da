SPECIFICATION Spec
CONSTANTS
  n1 = n1
  n2 = n2
  n3 = n3
  Nodes = {n1, n2, n3}
  None = None
  Plans <- AllPlans
  WINDOW_SHARES = 4
  RETARGET_SHARES = 3
  MEDIAN_SHARES = 3
  MAX_UNCLE_DEPTH = 2
  MAX_UNCLES = 1
  MAX_CHAIN_SHARES = 18
  TIP_MAX_AGE = 1
  SLACK = 0
  PRUNE_SLACK = 1
  PRUNE_STEP = 2
  MAX_ORPHAN_SHARES = 4
  ORPHAN_BACKLOG = 3
  SHARES_PER_MESSAGE = 6
  ASK_ON_VERSION = 1
  MAX_RECENT_JOBS = 2
  ORPHAN_EXPIRY = 1
  SYNC_SERVE_INTERVAL = 2
  SYNC_ANSWER_WINDOW = 0
INVARIANTS P2PoolTypeOK HonestNotBlamed TrustStaysBelow TemplatePays BestHeld Converge
CHECK_DEADLOCK FALSE
