SPECIFICATION FairSpec
CONSTANTS
    NoTime = NoTime
    Keywords <- MCKeywords
    Files = {notes, tasks}
    Docs = {"open", "done"}
    Text <- MCText
    Absent = Absent
    Stranger <- MCStranger
    MaxEdits = 2
    MaxFaults = 1
    MaxCrashes = 1
INVARIANTS TypeOK InSync
PROPERTIES OthersKept RemovedForGood CatchesUp
CHECK_DEADLOCK FALSE
