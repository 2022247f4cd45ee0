\* Forms of up to two recipients, two commands of the full screen, pastes of two lines.
SPECIFICATION Spec
CONSTANTS
  VERSION <- MCVersion
  LatestVersions <- MCLatestVersions
  NoVersion = NoVersion
  TABS <- MCTabs
  MAX_RECIPIENTS = 2
  Slots = {first, second}
  None = None
  Paste = 2
  MaxHandlers = 3
  MaxLogs = 3
INVARIANTS EditedRowExists OneTransferAtATime AnswersReachTheirCommand LogsKeepOrder
SYMMETRY MCSymmetry
CHECK_DEADLOCK FALSE
