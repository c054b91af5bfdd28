CONSTANTS
  Sources = {s1, s2}
  MsgqDepth = 5
  MaxData = 7
  PoolSize = 5
  SubscriberSize = 5
  MaxMinor = 7
  MaxSubmits = 7
  MachineDepth = 5
  FADE_STEP = 2
SPECIFICATION Spec
PROPERTY ReadOnce
CHECK_DEADLOCK FALSE
