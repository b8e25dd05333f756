CONSTANTS
    MaxLinks = 2
    MaxUnits = 3
    ReadSize = 4
    Uses <- MCUses
SPECIFICATION FairSpec
INVARIANTS
    TypeOK
    DeliveredWhole
    SequencesHonest
PROPERTIES
    ImplementsByteChannel
    CallsReturn
CHECK_DEADLOCK FALSE
