SPECIFICATION Spec
CONSTANTS
    Contents <- MCContents
    Positions <- MCPositions
    Word = 16
    MaxPeek = 1
    Types = {"LET", "COMMA", "END_OF_FILE"}
    MaxTokens = 6
    MaxPieces = 5
INVARIANTS
    TypeOK
    InSourceOrder
    UndefinedOnlyIfStuck
    AreasOnALine
    AreasOrdered
PROPERTIES
    StreamSpec
    ErrorIsFinal
CHECK_DEADLOCK FALSE
