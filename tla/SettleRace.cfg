CONSTANTS
    k1 = k1
    k2 = k2
    s1 = s1
    s2 = s2
    p1 = p1
    p2 = p2
    Checkouts = {k1}
    Stocks = {s1}
    Qty <- Carts
    Workers = {p1, p2}
    Adjustments <- InitialStock
    Targets <- EveryType
    Messages <- ContradictingEvents
    CheckoutExpiry = 1
    Grace = 1
    Interval = 1
    MaxTime = 4
    TtlSweeps = FALSE
SPECIFICATION Spec
SYMMETRY WorkerSymmetry
INVARIANTS TypeOK OneStory AcknowledgedEventsHold SnapshotsAreHonest
PROPERTIES TerminalIsFinal RefundNeverRestocks NotCreatedIsLate DeferMovesForward
\* The queue is finite and the clock is bounded: the instance may come to rest.
CHECK_DEADLOCK FALSE
