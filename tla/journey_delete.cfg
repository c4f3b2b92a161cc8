\* The promise of the delete story against saves still queued at the delete.
SPECIFICATION Spec
CONSTANTS
    Journeys = {j1}
    Skills <- MCOneSkill
    Sessions = {s1}
    None = None
    NoSession = NoSession
    NotDone = NotDone
    ChildTables <- MCBothTables
    MaxRev = 1
    MaxEarly = 1
    MaxCrashes = 1
    Stalled <- MCNobody
INVARIANTS
    DeletedStaysDeleted
CHECK_DEADLOCK FALSE
