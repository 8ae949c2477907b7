CONSTANTS
    NVar = 11
    NInput = 4
    Library <- Decisions
    RootPairs <- Pairs
    Trims = {TRUE}
SPECIFICATION FairSpec
INVARIANTS TypeOK ReturnsConjunction StaysCountable StaysCanonical ContextPerFrame ConflictKept
PROPERTY Termination
