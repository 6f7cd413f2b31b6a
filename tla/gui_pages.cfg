SPECIFICATION FairSpec
CONSTANTS
  Users = {u, v}
  NoUser = NoUser
  MaxEvents = 6
INVARIANTS TypeOK OnePageVisible LoginForced SessionIsGranted
PROPERTY FreeAgain
CHECK_DEADLOCK FALSE
