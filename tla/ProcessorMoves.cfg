SPECIFICATION FairSpec
CONSTANTS
    m1 = m1
    m2 = m2
    rec = rec
    rng = rng
    rec2 = rec2
    w1 = w1
    w2 = w2
    wfs = wfs
    blk = blk
    range = range
    SERVERS = SERVERS
    RECOVERY_BLOCKER = RECOVERY_BLOCKER
    RECOVER_SERVER = RECOVER_SERVER
    METADATA = METADATA
    RECOVER = RECOVER
    loc = loc
    reg = reg
    Ops = {m1, m2, wfs}
    Names = {range, SERVERS, RECOVERY_BLOCKER, RECOVER_SERVER, METADATA, RECOVER, loc, reg}
    Workers = {w1, w2}
    None = None
    Sets <- MasterSets
    Changes <- MasterChanges
    Perpetual = {wfs}
    StateOnly = {}
    Blockers = {wfs}
    ExclusiveName <- Exclusives
    Startup = {wfs}
    Later = {m1, m2}
    Bound <- AllCalls
INVARIANT TypeOK
INVARIANT ExclusiveOneAtATime
PROPERTY EveryOperationCompletes
PROPERTY WaiterIsTold
PROPERTY WorkersExit
CHECK_DEADLOCK FALSE
