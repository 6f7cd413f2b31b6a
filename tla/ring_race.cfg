SPECIFICATION FairSpec
CONSTANTS
  Discipline = "none"
  Size = 3
  Readlen = 2
  MaxPacket = 2
  MaxWritten = 6
INVARIANTS TypeOK AccessesInBounds PositionInv
