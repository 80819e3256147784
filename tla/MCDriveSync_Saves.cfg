SPECIFICATION Spec
CONSTANTS
    MaxMade = 2
    MaxVersions = 3
    MaxTrouble = 2
INVARIANTS
    TypeOK
    NotedEditsReachDrive
PROPERTIES
    OverwritesWhatItSaw
CHECK_DEADLOCK FALSE
