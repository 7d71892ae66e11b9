SPECIFICATION Spec
CONSTANTS
    NumTitles = 2
    Names = {n1, n2, n3}
    Isos = {i1, i2}
    None = None
    Stranger = Stranger
    Guest = Guest
    MaxEdits = 2
    MaxEncodings = 2
    MaxCrashes = 1
    MaxStrangers = 1
    MaxDeletes = 1
    HandOver = FALSE
SYMMETRY Symmetry
INVARIANTS TypeOK ImageKept RecordTrue
PROPERTIES StrangersKept
CHECK_DEADLOCK FALSE
