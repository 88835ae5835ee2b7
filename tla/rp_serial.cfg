SPECIFICATION Spec
CONSTANTS
    r1 = r1
    r2 = r2
    c1 = c1
    c2 = c2
    c3 = c3
    Ref = {r1, r2}
    Commit = {c1, c2, c3}
    None = None
    Sid = {s1, s2}
    Handler = {h1}
    Ancestors <- MCAncestors
    InitRefs <- MCInitRefs
    Pushes <- MCPushes
    Packs <- MCPacks
    DenyDeletes = TRUE
    DenyNonFastForwards = TRUE
    ReadErrors = FALSE
    GCPolicy = "betweenWrites"
PROPERTY
    ImplementsAtomicPush
CHECK_DEADLOCK FALSE
