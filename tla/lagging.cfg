SPECIFICATION Spec
CONSTANTS
    Discs = {d1}
    Drives = {v1}
    None = None
    MaxEncodes = 2
    MaxAttempts = 5
    MaxBackups = 2
    MaxEdits = 0
    MaxRetries = 1
    MaxInserts = 2
    MaxFaults = 1
    FaultKinds = {"agent","api","eject","unplug","reconcile","job","expire"}
    Damaged = FALSE
    TwoCopies = FALSE
    BusyPeople = TRUE
    LaggingCache = TRUE
INVARIANTS LatestKept

CHECK_DEADLOCK FALSE
