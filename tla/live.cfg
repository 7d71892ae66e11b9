SPECIFICATION FairSpec
CONSTANTS
    Discs = {d1}
    Drives = {v1}
    None = None
    MaxEncodes = 1
    MaxAttempts = 11
    MaxBackups = 2
    MaxEdits = 0
    MaxRetries = 1
    MaxInserts = 2
    MaxFaults = 1
    FaultKinds = {"agent","api","eject","reconcile","delete","job","expire"}
    Damaged = FALSE
    TwoCopies = FALSE
    BusyPeople = FALSE
    LaggingCache = FALSE

PROPERTIES PipelineEnds LeaseEnds
CHECK_DEADLOCK FALSE
