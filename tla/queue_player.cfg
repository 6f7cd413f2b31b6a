SPECIFICATION FairSpec
CONSTANTS
  Songs = {a, b, c}
  NoSong = NoSong
  Limit = 1
  Labels = 2
  MaxEvents = 5
INVARIANTS TypeOK QueueIsNewest NoSongSkipped ListIsPlayersQueue
PROPERTY ChangeIsShown
