SPECIFICATION FairSpec
CONSTANTS
    Alphabet = {"IDENTIFIER", "IF", "ELSE", "L_PARANTHESIS", "R_PARANTHESIS", "L_BRACKET", "R_BRACKET"}
    MaxTokens = 6
    Unlexable = FALSE
    Entries = {"expression_bp"}
    Shapes <- DroppedShapes
INVARIANTS
    IfIsAnIf
CHECK_DEADLOCK FALSE
