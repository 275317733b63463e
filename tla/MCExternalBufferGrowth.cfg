CONSTANTS
    Byte <- MCByte
    LocalHeader <- MCLocalHeader
    FinalHeader <- MCFinalHeader
    Directory <- MCDirectory
    DataChunks <- MCDataChunks
    InitialSize = 2
    StartSizes = {0, 1, 2}
    MaxWrites = 5
SPECIFICATION FairSpec
PROPERTY GrowthEnds
