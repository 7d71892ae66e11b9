CONSTANTS
    Apps <- AllApps
    Outline <- Outlines
    None = None
    MaxFaults = 2
    MaxEdits = 2
SPECIFICATION Spec
INVARIANTS TypeOK Converged NeverBroken
PROPERTIES Implements Quiet HandKept Recovers
