CONSTANTS
  HasSensor = TRUE
  IdMod = 3
  IdByte = 2
  PacketIds <- MCPacketIds
SPECIFICATION Spec
PROPERTY ReadCommandExecuted
