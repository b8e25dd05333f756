CONSTANTS
    Paths = {p1, p2}
    Package = p1
    MaxChunks = 2
    MaxCalls = 2
    MaxFaults = 1
    MaxJobs = 1
    Services = {"afc", "installer", "house", "control"}
    Shims = {"afc", "installer", "house"}
    MaxNoise = 2
SPECIFICATION AppsFairSpec
INVARIANTS
    AppsTypeOK
    ServicesLeftClean
PROPERTIES
    ReportsAreTrue
    JobsEnd
CHECK_DEADLOCK FALSE
