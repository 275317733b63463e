CONSTANTS
    Zero = Zero
    Parts = {"blocks"}
    Tensors = {}
    Requests = {}
    Joins = {}
    BlockArguments <- ThreeComponents
    MaxBlocks = 1
    MaxMoves = 2
SPECIFICATION MapsSpec
PROPERTIES
    ComponentsKeepMeaning
