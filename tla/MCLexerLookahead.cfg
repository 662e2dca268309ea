SPECIFICATION Spec
CONSTANTS
    Contents <- MCContents
    Positions <- MCPositions
    Word = 16
    MaxPeek = 3
    Types = {"LET", "COMMA", "END_OF_FILE"}
    MaxTokens = 5
    MaxPieces = 3
INVARIANTS
    EachTokenOnce
    UndefinedOnlyIfStuck
CHECK_DEADLOCK FALSE
