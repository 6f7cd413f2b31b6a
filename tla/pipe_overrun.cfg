SPECIFICATION FairSpec
CONSTANTS
  Versions = {"smartsound_final"}
  Packets = {1}
  Paced = FALSE
  MaxSent = 9
INVARIANTS NoOverrun
CHECK_DEADLOCK FALSE
