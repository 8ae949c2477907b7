CONSTANTS
    NVar = 5
    NInput = 5
    DataVariables = {1, 2, 3}
    Formulas <- MCFormulas
    Orders <- MCOrders
    Compiled <- MCCompiled
    OptLevels = {0, 1, 2, 4}
    NoAnswer = NoAnswer
SPECIFICATION FairSpec
INVARIANTS TypeOK ReturnsProjection StaysCountable CountsModels EdgesAsExpected
PROPERTIES Termination ImplementsProjector
