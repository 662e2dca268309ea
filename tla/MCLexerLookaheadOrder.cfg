SPECIFICATION Spec
CONSTANTS
    Contents <- MCTwoTokens
    Positions <- MCPositions
    Word = 16
    MaxPeek = 2
    Types = {"LET", "COMMA", "END_OF_FILE"}
    MaxTokens = 4
    MaxPieces = 2
PROPERTY AsksTheNextToken
CHECK_DEADLOCK FALSE
