SPECIFICATION Spec
CONSTANTS
  NumBanks = 2
  Images <- Two
  TrialCnt = 1
  Configs <- Reverting
INVARIANT TrialBounded
