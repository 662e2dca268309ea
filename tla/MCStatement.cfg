SPECIFICATION FairSpec
CONSTANTS
    Alphabet = {"IDENTIFIER", "INTEGER", "COLON", "COMMA", "L_PARANTHESIS", "R_PARANTHESIS", "LAMBDA_ARROW", "L_BRACKET", "R_BRACKET", "SEMICOLON", "LET", "ASSIGN", "L_ARROW", "WHILE", "FOR"}
    MaxTokens = 17
    Unlexable = TRUE
    Entries = {"expression_bp", "let", "statement", "for_element", "identifier"}
    Shapes <- StatementShapes
INVARIANTS
    CoreTypeOK
    BuildsDeclaredNodes
    AreasWithin
    AreasNest
    ErrorsAreFresh
    DepthBounded
PROPERTIES
    Terminates
    ReadsAStream
CHECK_DEADLOCK FALSE
