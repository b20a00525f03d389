CONSTANTS
  SeqSize = 8
  Blocks = 9
  Room = 10
  Peers = 2
  Windows = {1, 2, 3}
  Timeouts = 1
  ArpTries = 2
  None = None
  NoMsg = NoMsg
  Stale = Stale
  Configs <- Putting
SPECIFICATION Spec
INVARIANT Complete
