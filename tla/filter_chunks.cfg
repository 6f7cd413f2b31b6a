SPECIFICATION Spec
CONSTANTS
  Versions = {"smartsound_v1", "smartsound_v2", "smartsound_v3", "smartsound_final"}
  Lowshelf <- MCLowshelf
  Highshelf <- MCHighshelf
  Bells <- MCBells
  lp_coefficients <- MCLowpass
  hp_coefficients <- MCHighpass
  Sample <- MCSample
  MaxChunk = 3
  MaxStream = 5
INVARIANTS BankIsSumOfFilters StreamFiltered OfflineAgrees
CHECK_DEADLOCK FALSE
