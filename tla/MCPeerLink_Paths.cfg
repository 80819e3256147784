SPECIFICATION Spec
CONSTANTS
    Peers = {1, 2}
    Writers = {1}
    MaxEdits = 2
    MaxRetries = 1
    MaxOffers = 3
    MaxTries = 1
    MaxTrouble = 1
INVARIANTS
    TypeOK
    DocumentsAgree
    OpenIsThere
PROPERTIES
    OpenStays
CHECK_DEADLOCK FALSE
