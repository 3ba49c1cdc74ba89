CONSTANTS
  PacketSize = 3
  ReadSize = 6
  NumPackets = 7
  MaxFaults = 2
SPECIFICATION Spec
INVARIANTS
  ExactlyWhatArrived
  NoArrivedPacketLost
CHECK_DEADLOCK FALSE
