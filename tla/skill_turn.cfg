\* One session, streamed and JSON turns, gate-confirm and one restart.
SPECIFICATION Spec
CONSTANTS
    Requests = {1, 2}
    Attempts = {a1, a2}
    NoAttempt = NoAttempt
    Boot = Boot
    Nobody = Nobody
    Earlier = Earlier
    MaxCrashes = 1
INVARIANTS
    TypeOK
    TurnsExclusive
    BilledOnce
    HistoryAlternates
    RowMatchesFile
PROPERTIES
    CompletedOnce
    JourneyFreed
CHECK_DEADLOCK FALSE
