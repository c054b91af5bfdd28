CONSTANTS
  HasSensor = FALSE
  IdMod = 3
  IdByte = 2
  PacketIds <- MCPacketIds
SPECIFICATION Spec
INVARIANT TypeOK
INVARIANT FlagTruthful
INVARIANT NetLedTracksFlag
INVARIANT AddressHeard
PROPERTY SessionSpec
PROPERTY Reconnects
PROPERTY AddressNoticed
