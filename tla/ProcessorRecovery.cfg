SPECIFICATION Spec
CONSTANTS
    m1 = m1
    m2 = m2
    rec = rec
    rng = rng
    rec2 = rec2
    w1 = w1
    w2 = w2
    wfs = wfs
    blk = blk
    range = range
    SERVERS = SERVERS
    RECOVERY_BLOCKER = RECOVERY_BLOCKER
    RECOVER_SERVER = RECOVER_SERVER
    METADATA = METADATA
    RECOVER = RECOVER
    loc = loc
    reg = reg
    Ops = {rec, rec2, rng, m1, blk}
    Names = {range, SERVERS, RECOVERY_BLOCKER, RECOVER_SERVER, METADATA, RECOVER, loc, reg}
    Workers = {w1, w2}
    None = None
    Sets <- MasterSets
    Changes <- MasterChanges
    Perpetual = {blk}
    StateOnly = {blk}
    Blockers = {blk}
    ExclusiveName <- Exclusives
    Startup = {blk}
    Later = {rec, rec2, m1}
    Bound <- OneActivation
INVARIANT RunsOnce
INVARIANT Acyclic
INVARIANT PerpetualKept
INVARIANT OnlyRetiredLeft
PROPERTY StartsUnhindered
CHECK_DEADLOCK FALSE
