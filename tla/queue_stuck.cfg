SPECIFICATION FairSpec
CONSTANTS
  Songs = {a, b}
  NoSong = NoSong
  Limit = 1
  Labels = 2
  MaxEvents = 4
PROPERTY OpenPageUpdates
