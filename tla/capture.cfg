\* The captures run out, so the system stops.
SPECIFICATION Spec
CONSTANTS
    ACs = {a1, a2}
    Dispatches = {d1, d2}
    Loads = {l1, l2}
    None = None
SYMMETRY MCSymmetry
INVARIANTS
    TypeOK
    CaptureAccounted
PROPERTIES
    EvidenceAdvances
    OverdueCapturesSettle
CHECK_DEADLOCK FALSE
