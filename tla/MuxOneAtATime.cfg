CONSTANTS
    MaxOpens = 2
    Services = {62078}
    PortModulus = 4
    MuxModulus = 2
    MaxPayload = 1
    MaxUnits = 2
    MaxWire = 2
    MaxFaults = 1
    Controls = FALSE
    OneAtATime = TRUE
SPECIFICATION FairSpec
INVARIANTS
    SequencesHonest
    ClosedByReset
PROPERTIES
    ImplementsByteChannel
    CallsReturn
CHECK_DEADLOCK FALSE
