SPECIFICATION BundlesSpec
CONSTANTS
    m = m
    c1 = c1
    c2 = c2
    t1 = t1
    t2 = t2
    None = None
    Ref = {m}
    Commit = {c1, c2}
    Table = {t1, t2}
    TableOf <- MCTableOf
    Ancestors <- MCAncestors
    RowsCount <- MCRowsCount
    BlockSize = 2
    Parents <- MCParents
    Jobs = {}
    Urls <- MCHeadUrls
INVARIANTS
    ImmutableAnswersStayTrue
