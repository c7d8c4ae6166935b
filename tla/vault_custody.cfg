SPECIFICATION Spec
CONSTANTS
    s1 = s1
    s2 = s2
    a1 = a1
    a2 = a2
    r1 = r1
    node = node
    owner = owner
    app = app
    NoKey = NoKey
    Node = node
    Pairs <- MCPairs
    Seals <- MCSeals
    Answers <- MCAnswers
    Erasers <- MCErasers
    Tiers = {0, 1}
    Overlaps = {TRUE, FALSE}
    Faults = {"throw"}
SYMMETRY MCSymmetry
CHECK_DEADLOCK FALSE
INVARIANTS
    TypeOK
    EnvelopeTracksEntry
    ActiveGrantOpensEntry
    RetiredGrantIsErased
