CONSTANTS
    Links = {"usb", "tcp"}
    Buses <- MCBuses
    Ids <- MCIds
    Attempts = 2
    BufUnits = 3
    MaxTries = 2
    MaxStale = 0
    MaxFrames = 1
    MaxSends = 0
    MaxFaults = 0
SPECIFICATION Spec
INVARIANTS
    HandsOutReceived
