SPECIFICATION MainSpec
CONSTANTS
    Contents <- MCLines
    Positions <- MCPositions
    Word = 16
    MaxPeek = 1
    Types = {}
    MaxTokens = 7
    MaxPieces = 6
INVARIANTS
    PrintsTheSource
    PopsWhatItSaw
    PrintsInOrder
PROPERTIES
    MainEnds
CHECK_DEADLOCK FALSE
