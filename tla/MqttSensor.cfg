CONSTANTS
  HasSensor = TRUE
  IdMod = 3
  IdByte = 2
  PacketIds = {1}
SPECIFICATION Spec
INVARIANT PublishArmed
INVARIANT SocketNotLeaked
PROPERTY DeadSocketClosed
PROPERTY KeepsPublishing
