CONSTANTS
    NVar = 14
    NInput = 4
    MaxTen = 4
    Documents <- Files
    Levels = {0, 1, 2, 3, 4}
    Orders <- UpAndDown
SPECIFICATION Spec
INVARIANTS CountsExact GraphExact NumbersAlive
