CONSTANTS
    NVar = 2
    Clauses <- TwoClauses
    MaxRecords = 5
SPECIFICATION FairSpec
INVARIANTS ContextRestored WellFormed OutermostKept IInv
PROPERTY PopReturns
CHECK_DEADLOCK FALSE
