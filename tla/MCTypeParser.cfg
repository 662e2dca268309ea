SPECIFICATION FairSpec
CONSTANTS
    Alphabet = {"IDENTIFIER", "SELF_TYPE", "COLON_COLON", "QUESTIONMARK", "LAMBDA_ARROW", "L_PARANTHESIS", "R_PARANTHESIS", "BITWISE_AND", "BITWISE_OR", "COMMA", "PLUS"}
    MaxTokens = 7
    TypeLength = 7
    Unlexable = TRUE
INVARIANTS
    CoreTypeOK
    ReturnsTypesOfTheGrammar
    RejectsNoTypeOfTheGrammar
    TakesTheLongestType
PROPERTIES
    Terminates
CHECK_DEADLOCK FALSE
