SPECIFICATION FairSpec
CONSTANTS
  Versions = {"prototype_v3", "smartsound_v1", "smartsound_v2",
              "smartsound_v3", "smartsound_final"}
  Packets = {1}
  Paced = TRUE
  MaxSent = 10
INVARIANTS TypeOK NoOverrun PlaysInOrder OnlyUnsignalledLeft
PROPERTIES ChainIsFifo BufferedUp GivenIsPlayed
CHECK_DEADLOCK FALSE
