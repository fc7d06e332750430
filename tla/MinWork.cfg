SPECIFICATION WorkSpec
CHECK_DEADLOCK FALSE
CONSTANTS
  Base = 16
  ProofOfWorkLimit = 32767
  FirstTarget = 64
  nInterval = 2
  nTargetSpacing = 16
  nMedianTimeSpan = 3
  fTestNet = FALSE
  Gaps = {1, 94}
  MaxChain = 9
  Required = 3
  ToCheck = 4
  Coin = 64
  nHalving = 2
  Width = 8
INVARIANTS
  MinWorkIsAlwaysEnough
