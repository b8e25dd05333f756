CONSTANTS
    Byte = 8
    CountFollows = 3
    Version = 100
    MaxDepth = 5
    MaxNumber = 2100
    MaxDouble = 3
    MaxInt = 70
    MaxChars = 3
    MaxWords = 5
SPECIFICATION Spec
INVARIANTS
    RoundTrips
    OnlyWellFormedIsRead
CHECK_DEADLOCK FALSE
