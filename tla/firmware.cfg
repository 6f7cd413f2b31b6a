SPECIFICATION Spec
CONSTANTS
  Versions = {"prototype_v1", "prototype_v2", "prototype_v3", "smartsound_v1",
              "smartsound_v2", "smartsound_v3", "smartsound_final"}
  MaxMoves = 3
  Rates = {44100, 48000}
  MaxEvents = 2
INVARIANTS OkMeansSetUp SoundFindsChain ClockFollows FoundUnlessTaken
PROPERTIES SilentUnlessFailed WriteReturns ReachableAgain
CHECK_DEADLOCK FALSE
