SPECIFICATION Spec
CONSTANTS
    Payloads <- MCPayloads
    Byte <- MCByte
    Spaces <- MCSpaces
    Operators <- MCOperators
    MAX_TOKENS = 4
    WordMax = 2
    Keyword <- MCKeyword
    RawUnion <- MCRawUnion
    RawOr <- MCRawOr
CHECK_DEADLOCK FALSE
INVARIANTS TokensAreTheText UnionSelectIsSeen 
PROPERTY TokenizerEnds
