SPECIFICATION Spec
CONSTANTS
  Methods = {"INVITE", "BYE", "INFO"}
  PeerMethods = {"INVITE", "BYE", "INFO"}
  Provisional = {}
  TerminateOnBye = {TRUE, FALSE}
  MaxTransactions = 3
  MaxPeerCseq = 2
  MaxAcks = 2
INVARIANTS
  QueueInOrder
  NoLostWakeup
CHECK_DEADLOCK FALSE
