CONSTANTS
    Workers = {p1, p2}
    Keys = {k1}
    ReviewedIn = {"scheduled"}
    Outcomes = {"completed"}
    MaxRevision = 6
SPECIFICATION Spec
SYMMETRY Symmetry
INVARIANTS TypeOK Readable StateWasTheJobs StartedWithApproval AnswersAgree ReceiptsAreTrue
PROPERTIES OnlyForward
\* No operator has to act, and the job may be over.
CHECK_DEADLOCK FALSE
