SPECIFICATION Spec
CONSTANTS
  NumSlots = 2
  ArraySize = 3
  MaxPriority = 2
  MaxTries = 2
  Configs <- MCConfigs
INVARIANTS TriesCounted RoundRobin
PROPERTIES DeadStaysDead Rollback
CHECK_DEADLOCK FALSE
