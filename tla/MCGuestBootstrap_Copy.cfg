CONSTANTS
  MaxEdits = 2
  MaxPeerEdits = 1
  Unsealable <- Unfit
  Broken <- Malformed
  Mine = Mine
  Wrecked = Wrecked
  Absent = Absent
  MaxTrouble = 2
SPECIFICATION Spec
CHECK_DEADLOCK FALSE
INVARIANTS TypeOK NoStrayCopy VmShowsOpenProject WaitingIsWatched OfferIsCurrent
PROPERTIES ReadyMatchesSeal LeavingUndoes
