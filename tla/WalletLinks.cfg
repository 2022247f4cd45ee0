\* Peer A answers HTTP, B only its WebSocket and may be removed and added again.
SPECIFICATION Spec
CONSTANTS
  A = A
  B = B
  Entries <- MCEntries
  Address <- MCAddress
  LinkCount <- MCLinkCount
  Configured = {A}
  HttpAddresses = {A}
  OtherNetwork = {}
  Calls = {1, 2}
  Sockets = {1, 2}
  MaxFaults = 1
  MaxUserSteps = 2
INVARIANT CallsHoldTheirSocket
PROPERTIES PeersComeBack RequestsEnd
CHECK_DEADLOCK FALSE
