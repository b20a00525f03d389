SPECIFICATION Spec
CONSTANTS
  NumBanks = 2
  Images <- Two
  TrialCnt = 1
  Configs <- Platforms
INVARIANTS MetadataSafe SparesRunning NoUpdateInTrial ActiveIntact TrialBounded
