CONSTANTS
    x1 = x1
    x2 = x2
    Parts = {"blocks", "numbers", "systems", "model", "neighbors"}
    Objects = {1, 2, 3}
    Numbers = {"n"}
    Parameters = {"p"}
    BlockDevices = {"cpu", "gpu"}
    CPU = "cpu"
    BlockTypes = {"f32", "f64"}
    Float64 = "f64"
    MaxBlocks = 2
    LoadedDepth = 2
    NumberOfAtoms = 2
    Shifts <- MCShifts
    Positions = {0, 1}
    CellVectors <- MCCellVectors
    Upstream = {1, 3}
    MaxPairs = 2
    Handles = {x1, x2}
    Axes = {"a"}
    DTypes = {"f32", "f64"}
    DefaultDType = "f32"
    Devices = {"cpu", "meta"}
    Options = {"3.5 full strict"}
    DataNames = {"mass", "cell"}
    InvalidNames = {"cell"}
    WithEmptyData = TRUE
    WithSetCell = TRUE
    Inputs = {"h"}
    InputAxes = {"a"}
    InputTypes = {"f32", "f64"}
    InputDevices = {"cpu"}
    InputData = {}
    Modules <- MCModules
    PresetUnits = {"", "nm"}
    ModelUnits = {"", "nm"}
    EngineUnits = {"", "A"}
    LengthScale <- MCLengthScale
    EnergyScale <- MCEnergyScale
    Declared <- MCDeclared
    Requests <- MCRequests
    ModelDType = "f64"
    Atoms = {"a1", "a2"}
    Maps = {x1, x2}
    Gradients = TRUE
    Shares = FALSE
SYMMETRY Symmetry
SPECIFICATION TorchSpec
INVARIANTS
    TorchBlocksAreWhole
    SystemsAgree
    UnitsAreRight
    EachPairOnce
    DistancesMatch
    BackwardIsTheGradient
