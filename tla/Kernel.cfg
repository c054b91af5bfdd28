CONSTANTS
  Sources = {s1, s2}
  MsgqDepth = 5
  MaxData = 7
  PoolSize = 5
  SubscriberSize = 5
  MaxMinor = 7
  MaxSubmits = 7
  MachineDepth = 5
  FADE_STEP = 2
SPECIFICATION Spec
INVARIANT TypesOK
INVARIANT EventsFresh
INVARIANT NodesOnce
INVARIANT StateFollows
INVARIANT ExpiriesCounted
INVARIANT FadesBothWays
PROPERTY MsgsDelivered
PROPERTY ObserversSee
PROPERTY ItemsSeen
PROPERTY KeepsReceiving
CHECK_DEADLOCK FALSE
