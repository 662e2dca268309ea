SPECIFICATION Spec
CONSTANTS
    Alphabet = {"IDENTIFIER", "L_PARANTHESIS", "R_PARANTHESIS", "BITWISE_AND", "COMMA", "LAMBDA_ARROW"}
    MaxTokens = 6
    TypeLength = 13
    Unlexable = FALSE
INVARIANTS
    ErrorsMoveOnByLevel
CHECK_DEADLOCK FALSE
