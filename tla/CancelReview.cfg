CONSTANTS
    Workers = {p1, p2}
    Keys = {k1}
    ReviewedIn = {"cancel_requested"}
    Outcomes = {"completed"}
    MaxRevision = 4
SPECIFICATION Spec
SYMMETRY Symmetry
INVARIANTS Readable
\* No operator has to act, and the job may be over.
CHECK_DEADLOCK FALSE
