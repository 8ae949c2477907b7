CONSTANTS
    NVar = 11
    NInput = 4
    Library <- Decisions
    RootPairs <- Pairs
    Trims = {FALSE}
SPECIFICATION Spec
INVARIANT ReturnsConjunction
