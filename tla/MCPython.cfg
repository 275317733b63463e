CONSTANTS
    Threads = {t1, t2}
    Others = {"rust", "julia"}
    Classes = {"A", "B"}
    Length <- MCLength
    MaxOps = 3
    Initial = 2
SPECIFICATION PythonSpec
INVARIANTS
    LoadsWhatWasSaved
    SelectionIsRight
    SamplesStayTogether
    OriginsAgree
PROPERTIES
    OperationsEnd
