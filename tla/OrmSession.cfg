\* Two entities, one refers to the other; each changes at most once.
SPECIFICATION SessionSpec
CONSTANTS
    a = a
    b = b
    Item = {a, b}
    Absent = Absent
    Deps <- PairDeps
    TypeOf <- PairType
    WithIdentityMap = TRUE
    MaxValue = 1
    MaxRounds = 2
CONSTRAINT SomethingLeft
\* flush() may be at the bound of the rounds.
CHECK_DEADLOCK FALSE
INVARIANTS Consistent NothingForgotten
