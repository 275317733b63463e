CONSTANTS
    Parts = {"pipeline", "reduce", "arithmetic"}
    PipelineCalls = 3
SPECIFICATION Spec
CHECK_DEADLOCK FALSE
INVARIANTS
    OperationsKeepMeaning
    SortSorts
    ComparisonsAgree
    ReductionsAreExact
    DerivativesAreExact
