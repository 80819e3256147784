CONSTANTS
  MaxEdits = 1
  MaxPeerEdits = 1
  Unsealable <- Bad
  Broken <- NoContent
  Mine = Mine
  Wrecked = Wrecked
  Absent = Absent
  MaxTrouble = 1
SPECIFICATION FairSpec
CHECK_DEADLOCK FALSE
PROPERTIES WaitingEnds EveryoneGetsIn OfferSettles
