SPECIFICATION Spec
CONSTANTS
  Ends = {1, 4, 5}
  Unset = Unset
  PreSz = 3
  OutSz = 4
  InSz = 3
  NoDev = NoDev
  Configs <- MCConfigs
INVARIANTS ShownInOrder EarlyShown SilentUntilEnv RecordedAll TstcPending
