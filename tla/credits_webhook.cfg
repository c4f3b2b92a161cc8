\* The webhook story against a delivery that stops between its statements.
CONSTANTS
    t1 = t1
    checkout = checkout
    topUp = topUp
    cancel = cancel
    adjustment = adjustment
    Tenants = {t1}
    Events = {checkout, topUp, cancel}
    Kind <- MCKind
    Adjustments = {adjustment}
    Owner <- MCOwner
    Amount <- MCAmount
    Cost = 1
    FreeTier = 1
    Turns = {p1, p2}
    Deliveries = {d1, d2}
    NoRow = NoRow
    Idle = Idle
    MaxDebt = 1
SPECIFICATION Spec
PROPERTY AcknowledgedMeansCredited
