SPECIFICATION FairSpec
CONSTANTS
  Methods = {"INFO"}
  PeerMethods = {"INFO", "BYE"}
  Provisional = {100}
  TerminateOnBye = {TRUE, FALSE}
  MaxTransactions = 3
  MaxPeerCseq = 2
  MaxAcks = 2
PROPERTIES
  QueuedRequestSent
  UnacknowledgedEnds
CHECK_DEADLOCK FALSE
