CONSTANTS
    MaxOpens = 2
    Services = {62078}
    PortModulus = 3
    MuxModulus = 2
    MaxPayload = 1
    MaxUnits = 1
    MaxWire = 2
    MaxFaults = 0
    Controls = TRUE
    OneAtATime = FALSE
SPECIFICATION Spec
INVARIANTS
    TypeOK
    DeliveredInOrder
    PortUniqueUntilWrap
CHECK_DEADLOCK FALSE
