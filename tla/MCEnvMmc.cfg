CONSTANTS
  Vals = {dflt, v1, v2}
  Default = dflt
  dflt = dflt
  SerialMod = 4
  Configs <- Boards
SPECIFICATION Spec
INVARIANTS PowerFailSafe ErasedMeansErased
PROPERTY KeepsLastCopy
