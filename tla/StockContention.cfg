CONSTANTS
    k1 = k1
    k2 = k2
    s1 = s1
    s2 = s2
    p1 = p1
    p2 = p2
    Checkouts = {k1, k2}
    Stocks = {s1, s2}
    Qty <- Carts
    Workers = {p1, p2}
    Adjustments <- BusyStock
    Targets <- EveryType
    Messages <- OneOfEach
    CheckoutExpiry = 1
    Grace = 1
    Interval = 1
    MaxTime = 0
    TtlSweeps = FALSE
SPECIFICATION Spec
SYMMETRY WorkerSymmetry
INVARIANTS StockIsHeld LedgerExact
PROPERTIES ImplementsEscrow
\* The queue is finite and the clock is bounded: the instance may come to rest.
CHECK_DEADLOCK FALSE
