CONSTANTS
    Byte <- MCByte
    LocalHeader <- MCLocalHeader
    FinalHeader <- MCFinalHeader
    Directory <- MCDirectory
    DataChunks <- MCDataChunks
    InitialSize = 2
    StartSizes = {0, 2, 3, 9}
    MaxWrites = 5
SPECIFICATION FairSpec
INVARIANTS
    WritesInBounds
    CountIsAllocated
PROPERTIES
    IsByteStream
    SaveReturns
