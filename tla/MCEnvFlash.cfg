CONSTANTS
  Vals = {dflt, v1, v2}
  Default = dflt
  dflt = dflt
  Configs <- Boards
SPECIFICATION Spec
INVARIANTS PowerFailSafe LoadsSaved
PROPERTY NorProgram
