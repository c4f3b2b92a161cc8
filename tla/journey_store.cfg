\* One journey and its child tables, every operation, one restart: order,
\* durability and the delete.
SPECIFICATION Spec
CONSTANTS
    Journeys = {j1}
    Skills <- MCSkills
    Sessions = {s1}
    None = None
    NoSession = NoSession
    NotDone = NotDone
    ChildTables <- MCBothTables
    MaxRev = 3
    MaxEarly = 1
    MaxCrashes = 1
    Stalled <- MCNobody
INVARIANTS
    TypeOK
    MemoryNeverBehindRow
    QuiescentRowMatches
    NoUnreachableRow
    DeleteFailsOnlyIfDisturbed
    CleanDeleteIsFinal
PROPERTIES
    WritesInOrder
CHECK_DEADLOCK FALSE
