\* Branches with transactions, at a constant difficulty.
SPECIFICATION Spec
CONSTANTS
  EDX_UNIT = 1
  TOTAL_SUPPLY = 100
  PHASE_1_MAX_HEIGHT = 10
  PHASE_2_MAX_HEIGHT = 20
  PHASE_1_REWARD = 10
  PHASE_2_DIVISOR = 8
  PHASE_3_REWARD = 1
  COINBASE_MATURITY = 2
  MAX_TX_INPUTS = 2
  MAX_TX_OUTPUTS = 2
  Addresses <- MCAddresses
  MAX_TARGET = 360
  TARGET_BLOCK_SECONDS = 2
  LWMA_WINDOW = 9
  INITIAL_DIFFICULTY = 6
  MINIMUM_DIFFICULTY = 1
  MAX_TIMESTAMP_DROP_MULTIPLIER = 6
  MEDIAN_SPAN = 3
  RANDOMX_KEY_EPOCH_BLOCKS = 2
  RANDOMX_SEED_DELAY = 1
  NoHash = NoHash
  PROTOCOL_VERSION = 1
  GENESIS_TIMESTAMP_SECONDS = 0
  TIMESTAMP_FUTURE_TOLERANCE_MS = 2
  MS_PER_SECOND = 1
  MAX_BLOCK_BODY_BYTES = 450
  ADDRESS_CHARS = 34
  Blocks <- LedgerBlocks
  Wallets <- MCWallets
  PageSizes = {1, 2, 5}
  Absent = Absent
  Label = Label
  RawFees = {1, 2}
  MaxEntries = 7
  TickMs = 2
  MaxNow = 2
INVARIANTS SupplyIsConserved BranchesSpendSoundly HistoryExplainsBalance PagesShowOneHistory SignedRawIsAccepted
CHECK_DEADLOCK FALSE
