CONSTANTS
    Q25_DIGITS = 2
    Integers32 <- MCIntegers
    Scales <- MCScales
    Operands <- MCOperands
    Texts <- MCTexts
    MaxMagnitude = 150
    MaxPower = 1
SPECIFICATION Spec
INVARIANTS Canonical ResultsExact OrderExact TextExact
