SPECIFICATION Spec
CONSTANTS
    Discs = {d1}
    Drives = {v1}
    None = None
    MaxEncodes = 2
    MaxAttempts = 8
    MaxBackups = 2
    MaxEdits = 1
    MaxRetries = 0
    MaxInserts = 2
    MaxFaults = 1
    FaultKinds = {"api","eject","reconcile","job","expire"}
    Damaged = TRUE
    TwoCopies = FALSE
    BusyPeople = FALSE
    LaggingCache = FALSE
INVARIANTS TypeOK BackupKept OneEncode DoneMatchesBackup DoneMatchesSpec
PROPERTIES IsoGrows
CHECK_DEADLOCK FALSE
