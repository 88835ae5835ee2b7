SPECIFICATION Spec
CONSTANTS
    Branch = {b1}
    Commit = {c1, c2, c3}
    Table = {t1}
    Tid = {x1}
    Handler = {h1, h2}
    None = None
    ReadErrors = FALSE
    GCPolicy = "betweenWrites"
SYMMETRY Symmetric
PROPERTY
    HeadExtendsHead
CHECK_DEADLOCK FALSE
