\* Two journeys, the chain of one of which may hang for ever, and a restart: the
\* other chain drains, and all of it amounts to a write-behind store.
SPECIFICATION FairSpec
CONSTANTS
    Journeys = {j1, j2}
    Skills <- MCNobody
    Sessions <- MCNobody
    None = None
    NoSession = NoSession
    NotDone = NotDone
    ChildTables <- MCNoTable
    MaxRev = 1
    MaxEarly = 0
    MaxCrashes = 1
    Stalled = {j2}
PROPERTIES
    ImplementsWriteBehind
    ChainDrains
CHECK_DEADLOCK FALSE
