SPECIFICATION FairSpec
CONSTANTS
    Alphabet = {"IDENTIFIER", "COLON", "COMMA", "L_PARANTHESIS", "R_PARANTHESIS", "LAMBDA_ARROW"}
    MaxTokens = 9
    Unlexable = FALSE
    Entries = {"expression_bp"}
    Shapes <- TypedShapes
INVARIANTS
    AcceptsTypedParameters
CHECK_DEADLOCK FALSE
