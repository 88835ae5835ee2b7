SPECIFICATION Spec
CONSTANTS
    Branch = {b1, b2}
    Commit = {c1, c2, c3}
    Table = {t1}
    Tid = {x1}
    Handler = {h1, h2}
    None = None
    ReadErrors = TRUE
    GCPolicy = "betweenWrites"
SYMMETRY Symmetric
INVARIANTS
    TypeOK
    DatabaseClosed
    EveryHeadAnnounced
    AckedCommitsStay
    UnracedTxRefsHaveTx
PROPERTIES
    UndisturbedBranchesGrow
    UnracedCommittedStays
CHECK_DEADLOCK FALSE
