CONSTANTS
    Reservations = {r1, r2, r3, r4}
    Failing = {r1, r2, r3}
    Limit = 2
    Period = 2
SPECIFICATION Spec
INVARIANTS TypeOK
PROPERTIES EvidenceSettles
