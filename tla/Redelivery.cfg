CONSTANTS
    k1 = k1
    k2 = k2
    s1 = s1
    s2 = s2
    p1 = p1
    p2 = p2
    Checkouts = {k1}
    Stocks = {s1}
    Qty <- Carts
    Workers = {p1, p2}
    Adjustments <- InitialStock
    Targets <- Republished
    Messages <- RepeatedFacts
    CheckoutExpiry = 1
    Grace = 1
    Interval = 1
    MaxTime = 0
    TtlSweeps = TRUE
SPECIFICATION Spec
SYMMETRY WorkerSymmetry
INVARIANTS SettledOnce NotificationsAreTrue

\* The queue is finite and the clock is bounded: the instance may come to rest.
CHECK_DEADLOCK FALSE
