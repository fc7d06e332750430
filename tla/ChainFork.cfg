SPECIFICATION HeightSpec
CONSTANTS
  NULL = NULL
  Block <- ForkBlocks
  Genesis = "g"
  hashPrevBlock <- ForkPrev
  Tx <- ForkTx
  vtx <- ForkVtx
  vin <- ForkVin
  vout <- ForkVout
  CoinBase <- ForkCoinBase
  COINBASE_MATURITY = 2
  BadValue = {}
  BadSig = {"x4"}
  GetBlockWork <- UnequalWork
  GetTotalBlocksEstimate = 2
  LateBlocks = {}
  MaxCrashes = 0
  MaxFaults = 0
INVARIANTS
  UnspentIsReplay
  TipIsHeaviest
  FindsMainChainBlock
PROPERTIES
  ImplementsBestChain
CHECK_DEADLOCK FALSE
