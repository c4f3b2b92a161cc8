\* A journey of one or two stories from its definition on, with one extra request and one
\* disturbance.  A journey that is complete or deleted stops.
SPECIFICATION Spec
CONSTANTS
    FirstStage = "definition"
    StoryLists = {1, 2}
    Requests = {1, 2}
    MaxExtras = 1
    MaxDisturbances = 1
INVARIANTS
    TypeOK
    SessionOfStage
    NoStageSkipped
    LeftBehindSignedOff
PROPERTIES
    ImplementsProgress
    NoDeadEnd
CHECK_DEADLOCK FALSE
