\* The concurrent-edit story against a merge whose base is the file.
SPECIFICATION Spec
CONSTANTS
    Users = {"susan", "darren"}
    Saves = {s1, s2}
    Original <- MCOriginal
    None = None
    Turn = "turn"
    Samples <- MCNoSamples
PROPERTY MergedSaveKeepsBoth
CHECK_DEADLOCK FALSE
