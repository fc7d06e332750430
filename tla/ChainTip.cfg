SPECIFICATION Spec
CONSTANTS
  NULL = NULL
  Block <- ForkBlocks
  Genesis = "g"
  hashPrevBlock <- ForkPrev
  Tx <- ForkTx
  vtx <- ForkVtx
  vin <- ForkVin
  vout <- ForkVout
  CoinBase <- ForkCoinBase
  COINBASE_MATURITY = 2
  BadValue = {}
  BadSig = {}
  GetBlockWork <- UnitWork
  GetTotalBlocksEstimate = 0
  LateBlocks = {}
  MaxCrashes = 1
  MaxFaults = 0
INVARIANTS
  TipIsCommitted
CHECK_DEADLOCK FALSE
