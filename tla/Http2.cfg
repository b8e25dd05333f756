CONSTANTS
    DefaultWindow = 1
    MaxFrame = 2
    MaxWindow = 3
    Windows = {1, 3}
    Bodies = {"reply"}
    MaxUnits = 2
    MaxOwn = 2
    MaxWire = 1
    MaxFaults = 1
SPECIFICATION FairSpec
INVARIANTS
    TypeOK
    ConnectionWithinGrant
    MessagesInOrder
    WindowsExact
PROPERTIES
    StreamWithinGrant
    WritesReturn
CHECK_DEADLOCK FALSE
