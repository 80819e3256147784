SPECIFICATION FairSpec
CONSTANTS
    Calls = {c1, c2, c3}
    NoCall = NoCall
    MaxRetries = 1
    MaxEdits = 2
    MaxOutside = 2
    Documents <- MCDocuments
INVARIANTS
    TypeOK
    CleanMeansSaved
    IdsNameOneDocument
    SnapshotsRestorable
PROPERTIES
    WritesAreOrdered
    SaveSettles
CHECK_DEADLOCK FALSE
