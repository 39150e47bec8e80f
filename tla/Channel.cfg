SPECIFICATION FairSpec
CONSTANTS
  Messages = {m1, m2, m3}
  Big = {m2}
  Registers = {m1}
  TooLong = {m3}
  NoMessage = NoMessage
  MaxAddresses = 2
  MaxNotices = 2
INVARIANTS
  NoLimbo
  FlushedWhenReady
PROPERTY ChannelSettles
CHECK_DEADLOCK FALSE
