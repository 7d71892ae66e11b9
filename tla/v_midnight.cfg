SPECIFICATION Spec
CONSTANTS
    NoTime = NoTime
    Keywords <- MCKeywords
    Files = {notes}
    Docs = {"allday", "midnight"}
    Text <- MCText
    Absent = Absent
    Stranger <- MCStranger
    MaxEdits = 2
    MaxFaults = 0
    MaxCrashes = 0
INVARIANT InSync
CHECK_DEADLOCK FALSE
