\* A buffer of three small buffers, refilled several times by the stream.
SPECIFICATION FairRecvSpec
CONSTANTS
  BufferSize = 4
  BufferCount = 3
  HeaderSize = 2
  MaxPacket = 4
  StreamLength = 14
INVARIANTS
  CursorsInBounds
  RoomWhenPosted
  CompactionIsDisjoint
  BufferHoldsStream
PROPERTIES
  AllReceived
