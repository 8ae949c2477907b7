CONSTANTS
    NVar = 5
    DataVariables <- Data
    Inputs <- Gates
    Levels = {0, 1, 2, 3, 4, 5}
    TseitinModes = {"none", "detect", "promote"}
SPECIFICATION FairSpec
INVARIANTS TypeOK ProjectionPreserved TseitinDetermined LiteralMapExact EliminatedGone
PROPERTY Termination
