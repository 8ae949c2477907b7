CONSTANTS
    NVar = 4
    DataVariables <- Data
    Inputs <- Formulas
    Levels = {4}
    TseitinModes = {"promote"}
SPECIFICATION FairSpec
INVARIANTS IInv QueueCoversUnsettled ConflictWitness
