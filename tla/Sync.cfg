\* A healed partition, and blocks mined while they are downloaded.
SPECIFICATION Spec
CONSTANTS
  Nodes = {"a", "b", "c"}
  Networks <- MCNetworks
  Works = {1}
  NoReply = NoReply
  MaxTimeouts = 1
INVARIANT FetchAttaches
PROPERTIES LongerHeavierChainWins NodesConverge
CHECK_DEADLOCK FALSE
