CONSTANTS
    Orders = {o1}
    Proofs = {f1}
    Keys = {k1}
    Details = {d1}
    Invalid = bad
    Actions = {}
    Events = {"succeeded", "terminal_unpaid", "refund", "not_created"}
    MaxAttempts = 2
    Window = 1
    PaymentPeriod = 1
    Workers = {p1, p2}
    MaxTime = 2
    MaxRevision = 1
SPECIFICATION Spec
SYMMETRY Symmetry
PROPERTIES PaymentOpensWindow
\* The proofs are spent and the clock is bounded: the instance may come to rest.
CHECK_DEADLOCK FALSE
