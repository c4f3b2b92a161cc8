\* The saves run out, so the system stops.
SPECIFICATION Spec
CONSTANTS
    Users = {"susan", "darren"}
    Saves = {s1, s2}
    Original <- MCOriginal
    None = None
    Turn = "turn"
    Samples <- MCSamples
SYMMETRY MCSymmetry
INVARIANTS
    MergeKeepsBoth
    AttributionsTrue
    PagesGetTheFile
CHECK_DEADLOCK FALSE
