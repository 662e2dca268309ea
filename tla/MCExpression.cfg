SPECIFICATION FairSpec
CONSTANTS
    Alphabet = {"IDENTIFIER", "INTEGER", "L_PARANTHESIS", "R_PARANTHESIS", "COMMA", "LAMBDA_ARROW", "PLUS", "MINUS", "ASTERIX", "PERCENT", "LOGICAL_OR", "LOGICAL_AND", "BITWISE_OR", "BITWISE_AND", "LOGICAL_NOT", "LT", "GE", "EQ", "NEQ", "DOT", "IF", "ELSE", "ELIF", "L_BRACKET", "R_BRACKET", "SEMICOLON", "LET", "ASSIGN"}
    MaxTokens = 12
    Unlexable = FALSE
    Entries = {"expression_bp"}
    Shapes <- ExpressionShapes
INVARIANTS
    ReturnsExpressionsOfTheGrammar
    RejectsNoExpressionOfTheGrammar
    TakesTheLongestExpression
PROPERTIES
    Terminates
CHECK_DEADLOCK FALSE
