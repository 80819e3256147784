CONSTANTS
  MaxEdits = 1
  MaxPeerEdits = 0
  Unsealable <- NoContent
  Broken <- NoContent
  Mine = Mine
  Wrecked = Wrecked
  Absent = Absent
  MaxTrouble = 0
SPECIFICATION FairSpec
CHECK_DEADLOCK FALSE
PROPERTY ConvergesUnaided
