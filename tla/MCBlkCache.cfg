CONSTANTS
  d1 = d1
  d2 = d2
  Devs = {d1, d2}
  Parts <- MCParts
  NBlks = 2
  Data = {0, 1}
  Erased = 0
  BlkSz <- MCBlkSz
  Slots = {x1, x2}
  MaxBlksSet = {1, 2}
  MaxEntsSet = {0, 2}
  LbaMod = 4
SPECIFICATION Spec
INVARIANTS Coherent BufferFits ListExact
PROPERTY ReadsAsDevice
SYMMETRY Sym
