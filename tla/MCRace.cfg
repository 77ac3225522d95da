SPECIFICATION Spec
CONSTANTS
  MAKER_LOCK = 4
  TAKER_LOCK = 2
  nTakerMinLeft = 3
  nMakerMinLeft = 1
  nGiveUpWaiting = 1
  nAnswerWithin = 0
  nRedeemBumpAfter = 1
  Day = 2
  Worlds <- RogueMaker
  MaxAway = 1
  MaxMishaps = 0
  Horizon = 8
INVARIANT DoneMeansTaken
CHECK_DEADLOCK FALSE
