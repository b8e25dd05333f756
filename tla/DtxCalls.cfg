CONSTANTS
    Services = {"control", "other"}
    IdModulus = 3
    MaxRest = 2
    MaxCalls = 2
    MaxSends = 1
    MaxWire = 4
    MaxFaults = 2
SPECIFICATION FairSpec
INVARIANTS
    TypeOK
    ReplyAnswersCall
    SuccessIsDone
    IncomingHandled
    CodeNamesService
PROPERTIES
    CallsReturn
CHECK_DEADLOCK FALSE
