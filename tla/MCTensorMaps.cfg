CONSTANTS
    Zero = Zero
    Parts = {"move", "join", "blocks"}
    Tensors <- MCTensors
    Requests <- MCRequests
    Joins <- MCJoins
    BlockArguments <- AllArguments
    MaxBlocks = 4
    MaxMoves = 2
SPECIFICATION MapsSpec
INVARIANTS
    MeaningIsKept
    ResultIsValid
    SamplesAreOrdered
    JoinIsRight
    BlocksStayValid
PROPERTIES
    ComponentsKeepMeaning
