SPECIFICATION ProcessSpec
CONSTANTS
  NULL = NULL
  Block <- Blocks
  Genesis = "g"
  hashPrevBlock <- Prev
  Tx <- CoinBases
  vtx <- Vtx
  vin <- NoInputs
  vout <- OneOutput
  CoinBase <- CoinBases
  COINBASE_MATURITY = 1
  BadValue = {"b2"}
  BadSig = {}
  GetBlockWork <- UnitWork
  GetTotalBlocksEstimate = 1
  LateBlocks = {}
  MaxCrashes = 1
  MaxFaults = 1
  Rejected = {"c2"}
  Checkpoints = {"k"}
  Doubtful <- BeforeCheckpoint
INVARIANTS
  TipIsHeaviestReceived
CHECK_DEADLOCK FALSE
