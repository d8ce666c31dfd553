CONSTANTS
    Workers = {p1, p2}
    Kinds = {"offer", "discount"}
    Tags = {t1, t2}
    Names = {n1}
    NoName = none
    MaxPresentation = 2
SPECIFICATION Spec
SYMMETRY Symmetry
INVARIANTS TypeOK ProviderInStep NothingLost
