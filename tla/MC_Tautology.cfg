CONSTANTS
    NVar = 4
    DataVariables <- Data
    Inputs <- Tautologies
    Levels = {4}
    TseitinModes = {"promote"}
SPECIFICATION Spec
INVARIANT ProjectionPreserved
