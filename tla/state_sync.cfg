\* Requests, processes and pushes run out, so the system stops.
SPECIFICATION Spec
CONSTANTS
    Requests = {r1, r2}
    Clis = {c1}
    Stories = {s1}
    NoStory = NoStory
    Skills <- MCSkills
    Absent = Absent
    MaxCrashes = 1
INVARIANTS
    ClosedGapsWereWritten
    ConflictLoggedOnce
    MarksWerePushed
PROPERTIES
    NoLostUpdate
    PipelineStateWins
CHECK_DEADLOCK FALSE
