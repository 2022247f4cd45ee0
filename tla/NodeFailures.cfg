\* Writes that fail, and restarts with a clock that may have lost time.
SPECIFICATION NodeSpec
CONSTANTS
  EDX_UNIT = 1
  TOTAL_SUPPLY = 100
  PHASE_1_MAX_HEIGHT = 10
  PHASE_2_MAX_HEIGHT = 20
  PHASE_1_REWARD = 10
  PHASE_2_DIVISOR = 8
  PHASE_3_REWARD = 1
  COINBASE_MATURITY = 1
  MAX_TX_INPUTS = 2
  MAX_TX_OUTPUTS = 2
  Addresses <- MCAddresses
  MAX_TARGET = 360
  TARGET_BLOCK_SECONDS = 2
  LWMA_WINDOW = 9
  INITIAL_DIFFICULTY = 6
  MINIMUM_DIFFICULTY = 1
  MAX_TIMESTAMP_DROP_MULTIPLIER = 6
  MEDIAN_SPAN = 3
  RANDOMX_KEY_EPOCH_BLOCKS = 2
  RANDOMX_SEED_DELAY = 1
  NoHash = NoHash
  PROTOCOL_VERSION = 1
  GENESIS_TIMESTAMP_SECONDS = 0
  TIMESTAMP_FUTURE_TOLERANCE_MS = 4
  MS_PER_SECOND = 1
  MAX_BLOCK_BODY_BYTES = 450
  ADDRESS_CHARS = 34
  Blocks <- PeerBlocks
  MaxEntries = 4
  TickMs = 2
  MaxNow = 2
  Transactions <- NoTransactions
  Sockets <- OneSocket
  Nonces = {1}
  MAX_ITEMS = 2
  LIST_LIMIT = 2
  NoJob = NoJob
  MaxRestarts = 1
  MaxFailures = 1
  MaxClockLoss = 2
PROPERTY ReplayLosesOnlyOrphans
CHECK_DEADLOCK FALSE
