SPECIFICATION ServerFairSpec
CONSTANTS
    Key = {k1, k2, k3}
    TTLs <- MCTTLs
    Idle = 2
    Request = {r1, r2}
INVARIANTS
    ServerTypeOK
    EveryItemHasDeadline
    NoEarlyRemoval
    OverdueAtMostIdle
    StoresOutliveRequests
PROPERTIES
    KeysExpire
    StopReturns
    ShutdownCompletes
CHECK_DEADLOCK FALSE
