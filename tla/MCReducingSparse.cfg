CONSTANTS
    Parts = {"reduce"}
    PipelineCalls = 1
SPECIFICATION Spec
CHECK_DEADLOCK FALSE
INVARIANTS
    GradientsAreDerivatives
