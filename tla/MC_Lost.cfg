CONSTANTS
    NVar = 14
    NInput = 4
    Library <- LostLibrary
    RootPairs <- LostPairs
    Trims = {TRUE}
SPECIFICATION Spec
INVARIANT ReturnsConjunction
