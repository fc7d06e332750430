SPECIFICATION PoolSpec
CONSTANTS
  NULL = NULL
  Block <- Blocks
  Genesis = "g"
  hashPrevBlock <- Prev
  Tx <- Transaction
  vtx <- Vtx
  vin <- Vin
  vout <- Vout
  CoinBase <- CoinBases
  COINBASE_MATURITY = 1
  BadValue = {}
  BadSig = {}
  GetBlockWork <- UnitWork
  GetTotalBlocksEstimate = 0
  LateBlocks = {}
  MaxCrashes = 0
  MaxFaults = 0
  NonStandard = {"q"}
  Unrelayable = {}
  FreeTx = {}
  LargeTx = {}
  MAX_ORPHAN_TRANSACTIONS = 1
INVARIANTS
  PoolConnects
CHECK_DEADLOCK FALSE
