SPECIFICATION FairSpec
CONSTANTS
  NULL = NULL
  Block <- SoundBlocks
  Genesis = "g"
  hashPrevBlock <- ForkPrev
  Tx <- ForkTx
  vtx <- ForkVtx
  vin <- ForkVin
  vout <- ForkVout
  CoinBase <- ForkCoinBase
  COINBASE_MATURITY = 2
  BadValue = {}
  BadSig = {}
  GetBlockWork <- UnequalWork
  GetTotalBlocksEstimate = 0
  LateBlocks = {"b3"}
  MaxCrashes = 2
  MaxFaults = 2
INVARIANTS
  DatabaseIsOneChain
  MemoryIsDatabase
PROPERTIES
  AlwaysReturns
CHECK_DEADLOCK FALSE
