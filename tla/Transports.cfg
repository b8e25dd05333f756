CONSTANTS
    Links = {"usb", "tcp"}
    Buses <- MCBuses
    Ids <- MCIds
    Attempts = 2
    BufUnits = 3
    MaxTries = 2
    MaxStale = 2
    MaxFrames = 2
    MaxSends = 1
    MaxFaults = 1
SPECIFICATION FairSpec
INVARIANTS
    TypeOK
    BytesIntact
PROPERTIES
    OpensAsAsked
    CallsReturn
