SPECIFICATION FairSpec
CONSTANTS
    Versions = {v1, v2, v3, v4}
    First = v1
    Loadable = {v1, v2, v3}
    Healthy = {v1, v2}
    Hanging = {v3}
    None = None
    MaxPublishes = 4
    MaxResets = 2
    TornActivation = FALSE
INVARIANTS TypeOK OnlyTrustedRun RollbackReady Recoverable
PROPERTIES TrialEnds Settles
