------------------------------- MODULE Tokens -------------------------------
(***************************************************************************)
(* The token types of the neo language and the classes the parser asks     *)
(* about.  A token's text is never read by the parser's control flow, so a *)
(* token is its type wherever the parser is modelled.                      *)
(***************************************************************************)

(* enum class TokenTypes *)
TokenTypes ==
    {"LET", "FUN", "INTEGER", "STANDARD_STRING", "DOUBLE", "TYPE",
     "TYPECLASS", "WHITESPACE", "NEWLINE", "UNDERSCORE", "QUESTIONMARK",
     "LINE_COMMENT_START", "L_PARANTHESIS", "R_PARANTHESIS", "L_BRACKET",
     "R_BRACKET",
     "PLUS", "MINUS", "ASTERIX", "DIVISION", "PERCENT", "LOGICAL_OR",
     "LOGICAL_AND", "BITWISE_OR", "BITWISE_AND", "LOGICAL_NOT", "LT", "LE",
     "GT", "GE", "EQ", "NEQ", "DOT",
     "ASSIGN", "IF", "ELSE", "ELIF", "WHILE", "FOR", "LAMBDA_ARROW",
     "L_ARROW", "R_ARROW", "SELF_VALUE", "SELF_TYPE", "COMMA", "COLON",
     "COLON_COLON", "IDENTIFIER", "TRUE", "FALSE", "SEMICOLON",
     "END_OF_FILE"}

(* Token::isSeparator *)
IsSeparator(type) == type \in {"SEMICOLON", "NEWLINE"}

(* Token::isInfixOperator *)
IsInfixOperator(type) ==
    type \in {"PLUS", "MINUS", "ASTERIX", "DIVISION", "PERCENT",
              "LOGICAL_OR", "LOGICAL_AND", "BITWISE_OR", "BITWISE_AND",
              "LT", "LE", "GT", "GE", "EQ", "NEQ", "DOT"}

(* Token::isPrefixOperator *)
IsPrefixOperator(type) == type \in {"PLUS", "MINUS", "LOGICAL_NOT"}

(* Token::isPostfixOperator *)
IsPostfixOperator(type) == type \in {"L_BRACKET", "L_PARANTHESIS"}

(* Token::isOperator *)
IsOperator(type) ==
    IsInfixOperator(type) \/ IsPostfixOperator(type) \/ IsPrefixOperator(type)
=============================================================================
