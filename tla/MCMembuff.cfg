CONSTANTS
  Bytes = {0, 1}
  Ends = {0}
  MaxPut = 3
  MaxCap = 4
  Unset = Unset
SPECIFICATION Spec
INVARIANTS CountsExact ContigIsContiguous
PROPERTY ImplementsQueue
