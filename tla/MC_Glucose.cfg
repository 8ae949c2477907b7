CONSTANTS
    NVar = 4
    Formulas <- MCFormulas
    MaxReductions = 1
SPECIFICATION FairSpec
INVARIANTS AnswerRight LearntsImplied PropagationComplete ReasonsHold
PROPERTY Termination
