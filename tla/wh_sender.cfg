SPECIFICATION FairSpec
CONSTANTS
    e1 = e1
    e2 = e2
    e3 = e3
    commit = commit
    refUpdate = refUpdate
    None = None
    Event = {e1, e2, e3}
    Type = {commit, refUpdate}
    Flusher = {f1, f2, f3}
    TypeOf <- MCTypeOf
    Webhooks <- MCWebhooks
INVARIANTS
    TypeOK
    EachEventOnceInOrder
    WaitCoversFlushes
PROPERTIES
    FlushedIsPosted
CHECK_DEADLOCK FALSE
