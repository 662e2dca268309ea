SPECIFICATION FairSpec
CONSTANTS
    Alphabet = {"IDENTIFIER", "SEMICOLON", "L_PARANTHESIS", "L_BRACKET", "FOR"}
    MaxTokens = 7
    Unlexable = TRUE
    Entries = {"expression_bp"}
    Shapes <- NoTokenShapes
INVARIANTS
    StatementListReturnsWithoutToken
CHECK_DEADLOCK FALSE
