CONSTANTS
    a = a
    b = b
    Name = {a, b}
    Value = {0, 1}
    MaxCount1 = 2
    MaxCount2 = 2
    Inputs <- MCInputs
SPECIFICATION Spec
INVARIANTS
    UnionCorrect
    IntersectionCorrect
    SelectCorrect
    SelectNeverOverflows
    ResultsAreLabels
