CONSTANTS
    DefaultWindow = 1
    MaxFrame = 2
    MaxWindow = 3
    Windows = {1, 3}
    Bodies = {"reply"}
    MaxUnits = 3
    MaxOwn = 1
    MaxWire = 1
    MaxFaults = 0
SPECIFICATION FairSpec
PROPERTIES
    NeverOverruns
CHECK_DEADLOCK FALSE
