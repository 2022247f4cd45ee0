\* Two calls, sends or uploads, on four coins at two addresses.
SPECIFICATION Spec
CONSTANTS
  p = p
  q = q
  alice = alice
  bob = bob
  Studio = studio
  WalletAddresses <- MCWalletAddresses
  MaxInputs = 2
  Jobs = {1, 2}
  InitialCoins <- MCInitialCoins
  Requests <- MCRequests
  Fees = {1}
  Tip = 1
  Cap = 2
  UploadIds = {"u1"}
  Tries = 2
  MaxBlocks = 2
  MaxLost = 1
  MaxEvicted = 1
  MaxRestarts = 1
INVARIANTS PlansAreSound NobodyIsOverpaid CoinsAreSpentOnce
PROPERTY JobsEnd
CHECK_DEADLOCK FALSE
