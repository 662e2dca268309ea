SPECIFICATION Spec
CONSTANTS
    SourceTexts <- MCSourceTexts
    BehindTheEnd <- MCBehindTheEnd
    MaxInt = 127
    NumberLength = 5
    DecimalLength = 4
    StringLength = 5
    WordLength = 4
    OperatorLength = 4
    LineLength = 5
INVARIANTS
    Rescans
    IntegersKeepTheirValue
PROPERTIES
    MaximalMunch
CHECK_DEADLOCK FALSE
