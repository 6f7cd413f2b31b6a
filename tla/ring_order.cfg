SPECIFICATION FairSpec
CONSTANTS
  Discipline = "drained"
  Size = 4
  Readlen = 4
  MaxPacket = 4
  MaxWritten = 10
INVARIANTS FifoOrder FlagMeansUnread OrderInv
PROPERTIES ImplementsFifo EveryElementRead
