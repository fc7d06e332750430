SPECIFICATION PoolSpec
CONSTANTS
  NULL = NULL
  Block <- Blocks
  Genesis = "g"
  hashPrevBlock <- Prev
  Tx <- Transaction
  vtx <- Vtx
  vin <- Vin
  vout <- Vout
  CoinBase <- CoinBases
  COINBASE_MATURITY = 1
  BadValue = {}
  BadSig = {}
  GetBlockWork <- UnitWork
  GetTotalBlocksEstimate = 0
  LateBlocks = {}
  MaxCrashes = 1
  MaxFaults = 1
  NonStandard = {}
  Unrelayable = {}
  FreeTx = {"q"}
  LargeTx = {}
  MAX_ORPHAN_TRANSACTIONS = 2
INVARIANTS
  NextTxIsPool
  PoolIsUnconfirmed
PROPERTIES
  OrphansResolved
  LostToConflictOnly
CHECK_DEADLOCK FALSE
