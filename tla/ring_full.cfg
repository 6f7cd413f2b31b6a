SPECIFICATION FairSpec
CONSTANTS
  Discipline = "room"
  Size = 4
  Readlen = 3
  MaxPacket = 4
  MaxWritten = 12
INVARIANT StaysInBuffer
