SPECIFICATION Spec
CONSTANTS
    Shas = {s1}
    Orgs = {o1}
    Workers = {w1, w2}
    Nobody = Nobody
    Ghost = Ghost
    MayStall = FALSE
SYMMETRY Alike
INVARIANTS
    TypeOK
    ReferencedIsLive
    LiveRowsHaveFiles
