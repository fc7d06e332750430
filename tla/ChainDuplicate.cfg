SPECIFICATION Spec
CONSTANTS
  NULL = NULL
  Block <- DuplicateBlocks
  Genesis = "g"
  hashPrevBlock <- DuplicatePrev
  Tx <- DuplicateTx
  vtx <- DuplicateVtx
  vin <- DuplicateVin
  vout <- DuplicateVout
  CoinBase <- DuplicateCoinBase
  COINBASE_MATURITY = 1
  BadValue = {}
  BadSig = {}
  GetBlockWork <- UnitWork
  GetTotalBlocksEstimate = 0
  LateBlocks = {}
  MaxCrashes = 0
  MaxFaults = 0
INVARIANTS
  TipIsHeaviest
CHECK_DEADLOCK FALSE
