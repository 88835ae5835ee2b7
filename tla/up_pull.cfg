SPECIFICATION Spec
CONSTANTS
    c1 = c1
    c2 = c2
    c3 = c3
    d1 = d1
    t1 = t1
    t2 = t2
    t3 = t3
    Commit = {c1, c2, c3, d1}
    Table = {t1, t2, t3}
    Ancestors <- MCAncestors
    TableOf <- MCTableOf
    Deep <- MCDeep
    ClientHas <- MCClientHas
    ClientWants <- MCClientWants
    BatchSize = 2
INVARIANTS
    TypeOK
    PullIsComplete
    OfferedBeforeSent
PROPERTIES
    EveryRoundOffersMore
    ImplementsPull
CHECK_DEADLOCK FALSE
