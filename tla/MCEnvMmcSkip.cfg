CONSTANTS
  Vals = {dflt, v1}
  Default = dflt
  dflt = dflt
  SerialMod = 4
  Configs <- FailingWrite
SPECIFICATION Spec
INVARIANT SavedMeansStored
