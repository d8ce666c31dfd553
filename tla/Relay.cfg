CONSTANTS
    Events = {e1, e2, e3}
    Refused = {e1}
    Workers = {p1, p2}
    BatchSize = 2
    MaxRetries = 1
    MaxFaults = 2
    MaxTime = 1
SPECIFICATION Spec
INVARIANTS TypeOK DeliveredWasPublished NothingForgotten
PROPERTIES DeliveredStays HealthyDelivered
\* Every event is settled at last: the instance comes to rest.
CHECK_DEADLOCK FALSE
