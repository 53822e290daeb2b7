SPECIFICATION Spec
CONSTANTS
    Tokens <- MCTokens
    Unconvertible <- Unpaired
    MaxArgs = 4
INVARIANTS
    TypeOK
    OneCommand
    CommandAsWritten
    PlainRuns
PROPERTIES
    ParserEnds
