SPECIFICATION Spec
CONSTANTS
    r1 = r1
    r2 = r2
    c1 = c1
    c2 = c2
    c3 = c3
    Ref = {r1, r2}
    Commit = {c1, c2, c3}
    None = None
    Sid = {s1, s2}
    Handler = {h1, h2}
    Ancestors <- MCAncestors
    InitRefs <- MCInitRefs
    Pushes <- MCRacingPushes
    Packs <- MCRacingPacks
    DenyDeletes = FALSE
    DenyNonFastForwards = TRUE
    ReadErrors = TRUE
    GCPolicy = "betweenWrites"
SYMMETRY Symmetric
INVARIANTS
    TypeOK
    RefsPointToCommits
    NoRefBeforeAllObjects
    FinishedSessionsLeave
    SavedPushReportsTruly
    RejectedPushWritesNothing
    EveryChangeIsFlushed
CHECK_DEADLOCK FALSE
