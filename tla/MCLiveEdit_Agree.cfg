SPECIFICATION FairSpec
CONSTANTS
    Peers = {1, 2}
    Cells = {a, b}
    Gone = Gone
    MaxEdits = 3
    MaxTrouble = 1
INVARIANTS
    TypeOK
    ScreensAgree
    PendingOnShow
PROPERTY
    SettlesDown
CHECK_DEADLOCK FALSE
