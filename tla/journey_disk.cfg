\* Two journeys on one or two slugs, three sessions, one restart.
\* The sessions run out, so the system stops.
CONSTANTS
    Journeys = {j1, j2}
    Slugs = {s1, s2}
    Skills <- MCTwoSkills
    NoFile = NoFile
    NotLoaded = NotLoaded
    MaxSessions = 3
    MaxRestarts = 1
SPECIFICATION Spec
SYMMETRY MCSymmetry
CHECK_DEADLOCK FALSE
INVARIANTS
    ScopeSurvives
    ListingShowsProgress
    DeletedStaysDeleted
