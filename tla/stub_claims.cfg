SPECIFICATION Spec
CONSTANTS
    c1 = c1
    c2 = c2
    d1 = d1
    d2 = d2
    i1 = i1
    Calls = {c1, c2}
    Dids = {d1, d2}
    Invites = {i1}
    NoOne = NoOne
SYMMETRY Symmetry
INVARIANTS
    TypeOK
    RatchetCloses
    ClaimedFromBothSides
    LapsedIsNotClaimed
