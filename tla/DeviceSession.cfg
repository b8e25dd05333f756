CONSTANTS
    Vias = {"direct", "usbmuxd"}
    Attempts = 2
    MaxTries = 2
    MaxGens = 2
    Services = {1, 2}
    MaxWire = 2
    MaxFaults = 3
SPECIFICATION FairSpec
INVARIANTS
    TypeOK
    RecordsHold
    SessionAgrees
    RetryOutlastsFaults
PROPERTIES
    NoSecondDialog
    CallsReturn
CHECK_DEADLOCK FALSE
