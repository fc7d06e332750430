SPECIFICATION SequentialSpec
CHECK_DEADLOCK FALSE
CONSTANTS
  addr1 = addr1
  addr2 = addr2
  addr3 = addr3
  Addrs = {addr1, addr2, addr3}
  NewBucketOf <- MCNewBucketOf
  TriedBucketOf <- MCTriedBucketOf
  NEW_BUCKET_SIZE = 1
  TRIED_BUCKET_SIZE = 2
  NEW_BUCKETS_PER_ADDRESS = 2
  TRIED_ENTRIES_INSPECT_ON_EVICT = 4
  GETADDR_MAX_PCT = 50
  Byte = {0, 1, 2}
  MAX_SIZE = 1
  Garbage = 2
  Payloads <- MCPayloads
  MaxNumber = 16
  MaxOps = 201
  MaxStack = 1000
  MaxPubKeys = 20
  Base = 16
  ProofOfWorkLimit = 32767
  FirstTarget = 64
  nInterval = 2
  nTargetSpacing = 16
  nMedianTimeSpan = 3
  fTestNet = FALSE
  Gaps <- MCGaps
  MaxChain = 6
  Required = 3
  ToCheck = 4
  Coin = 64
  nHalving = 2
  Width = 8
  Pools <- MCPools
  nBlockMaxSize = 7
  nBlockPrioritySize = 3
  nBlockMinSize = 2
  MAX_BLOCK_SIGOPS = 5
  nMinTxFee = 1
  HighPriority = 1
  MAX_MONEY = 12
  CENT = 2
  MoneyWidth = 6
  MAX_BLOCK_SIZE_GEN = 40
  FreeTxSize = 4
  FreeBlockSize = 8
  KiloByte = 3
  nMaxSigOps = 7
  MIN_TX_FEE = 1
  MIN_RELAY_TX_FEE = 1
  nTransactionFee = 0
  ManyConfirmations = 2
  InputSize = 1
  OutputSize = 1
  RelayBlockSize = 2
  Foreign <- MCForeign
  Coinbases = {10, 13}
  FirstBlock <- MCFirstBlock
  Payees = {1}
  Maturity = 2
  COPY_DEPTH = 2
  MaxPayments = 2
  MaxHistory = 5
  MaxHeight = 64
  User = {u1, u2, u3}
  nKeypool = 1
  MaxKeys = 4
  ByteBits = 2
  WIDTH = 3
  WORD = 2
  Base58 = 3
  HashSize = 2
  nDecimals = 3
  MaxWhole = 2
  MaxCompactSize = 250
  BlockSize = 2
  Tolerance = 1
INVARIANTS
  AddrManAgrees
  PiecesDoNotMatter
  ScriptsDoWhatTheySay
  SignaturesSuffice
  MinWorkIsEnough
  TemplateIsSound
  ChecksBind
  ConversionsInvert
  PaymentIsFunded
  WalletFollowsChain
  PaymentsShareNoCoin
  BalancesAddUp
  NotTooFarBack
  PoolKeysUnused
  KeysAccounted
