\* A seed, a public node, a private node and a node of another network.
SPECIFICATION Spec
CONSTANTS
  s = s
  a = a
  b = b
  x = x
  Nodes = {s, a, b, x}
  Public = {s, a}
  Dead = {}
  Network <- MCNetwork
  Seeds <- MCSeeds
  MAX_PEERS = 3
  MAX_ADVERTISED_PEERS = 2
  MAX_PEER_ANNOUNCEMENTS = 4
  Slots = {1}
  Faulty = {a}
  FaultyLinks <- MCFaultyLinks
  MaxFaults = 1
INVARIANT OneAttemptPerPeer
PROPERTIES SeedsAreReached NewcomersMeetTheOthers
CHECK_DEADLOCK FALSE
