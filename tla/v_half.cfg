CONSTANTS
    Apps <- SportarrOnly
    Outline <- Outlines
    None = None
    MaxFaults = 1
    MaxEdits = 0
SPECIFICATION Spec
INVARIANT NothingHalfDone
