SPECIFICATION AgainSpec
CONSTANTS
  KEYPOOL_SIZE = 2
  RESTORE_BATCH = 1
  RESTORE_QUIET_BATCHES = 2
  RESTORE_MAX = 48
  Seeds = {a}
  None = None
  Plans <- SpentBetween
INVARIANT RestoreAgainFinds
CHECK_DEADLOCK FALSE
